---- MODULE Spec2Model ----
(***************************************************************************)
(* Simulation requirement runtime monitor of rigel                         *)
(* (rigel/plugins/core/test/introspection).                                *)
(*                                                                         *)
(* The monitor is a tree: the SimulationRequirementsManager (node 0) owns  *)
(* one requirement node per HPL requirement (nodes 1..n), each of which    *)
(* owns one or two SimpleSimulationRequirementNode leaves (nodes 10*r+i).  *)
(* Commands are delivered by direct synchronous calls, so one step of the  *)
(* model is one entry point (bus message, timer expiry, start, stop) run   *)
(* to completion, nested calls included.                                   *)
(*                                                                         *)
(* Time is a discrete clock.  time.time() returns the clock, which is at   *)
(* least 1, so that the initial last_message = 0.0 is smaller than every   *)
(* timestamp.  A started timer fires at its deadline: the clock does not   *)
(* advance past the deadline of a running timer; events that fall on the   *)
(* same tick happen in any order.                                          *)
(***************************************************************************)
EXTENDS Integers, Sequences, FiniteSets, TLC

\* Last tick of the clock.
MaxTime == 3
\* Largest number of calls of Plugin.stop_introspection in one run.
MaxStops == 1
\* Largest number of direct calls of handle_stop_simulation in one run.
MaxCancels == 2
\* math.inf, the timeout of a requirement without a time bound.
Inf == 1000

Manager == 0
Kinds == {"Existence", "Absence", "Response", "Requirement", "Prevention"}
TwoChildKinds == {"Response", "Requirement", "Prevention"}
Timeouts == (1..(MaxTime - 1)) \cup {Inf}

\* A parsed requirement: the pattern and its max_time (parser.py, visit_hpl_pattern).
Requirement == [kind : Kinds, timeout : Timeouts]
\* The requirements that lists of two are made of.
Companion == {[kind |-> "Existence", timeout |-> Inf],
              [kind |-> "Absence", timeout |-> 1]}
\* What makes the construction of a requirement's monitor raise: text the HPL
\* parser rejects, a pattern that is none of the five, an event that is
\* neither simple nor a disjunction, an operator the predicate compiler does
\* not support.
BuildErrors == {"Malformed", "UnsupportedPattern", "UnknownEvent", "UnsupportedOperator"}
\* A requirement whose monitor cannot be built.
Unbuildable == [kind : BuildErrors, timeout : {Inf}]
\* The lists of requirements of PluginModel.requirements that are examined.
RequirementLists ==
    {<<>>} \cup {<<a>> : a \in Requirement \cup Unbuildable}
           \cup {<<a, b>> : a \in Companion, b \in Companion}
           \cup {<<a, b>> : a \in Companion, b \in Unbuildable}
           \cup {<<b, a>> : a \in Companion, b \in Unbuildable}

ReqIds == 1..2
Child(r, i) == 10 * r + i
Father(n) == IF n >= 10 THEN n \div 10 ELSE Manager
LeafIds == {Child(r, i) : r \in ReqIds, i \in 1..2}
NodeIds == {Manager} \cup ReqIds \cup LeafIds
IsLeaf(n) == n >= 10

VARIABLES
    requirements,           \* PluginModel.requirements, parsed
    max_timeout,            \* PluginModel.timeout
    min_timeout,            \* PluginModel.ignore
    children,               \* SimulationRequirementsManager.children
    satisfied,              \* SimulationRequirementNode.satisfied, per node
    trigger,                \* SimpleSimulationRequirementNode.trigger
    last_message,           \* SimpleSimulationRequirementNode.last_message
    handlers,               \* leaves whose message_handler is registered on the bus
    timer,                  \* the threading.Timer of each requirement node
    start_timer,            \* SimulationRequirementsManager.__start_timer
    stop_timer,             \* SimulationRequirementsManager.__stop_timer
    finished,               \* SimulationRequirementsManager.finished
    introspection_started,  \* SimulationRequirementsManager.__introspection_started
    now,                    \* the clock read by time.time()
    stops,                  \* calls of Plugin.stop_introspection so far
    connect_time,           \* time of connect_to_rosbridge (0 before it)
    delivered,              \* history: ticks at which each leaf handled a qualifying message
    log,                    \* history: the entry point of the last step and the commands it sent
    verdicts,               \* history: the commands each requirement node has sent upstream
    cancels,                \* direct calls of handle_stop_simulation so far
    pending,                \* position of each node's timer or bus callback, between test and branch
    reports,                \* history: the STATUS_CHANGE commands each leaf has sent
    hpl,                    \* the HPL predicate handed to CallbackGenerator
    message,                \* the ROS message the compiled callback is applied to
    result                  \* the outcome of the compiled callback

vars == <<requirements, max_timeout, min_timeout, children, satisfied, trigger,
          last_message, handlers, timer, start_timer, stop_timer, finished,
          introspection_started, now, stops, connect_time, delivered, log,
          verdicts, cancels, pending, reports, hpl, message, result>>

\* The variables of the predicate compiler, which the monitor does not touch.
predvars == <<hpl, message, result>>

----------------------------------------------------------------------------
\* threading.Timer

NewTimer == [st |-> "new", at |-> 0]

\* Timer.start(): the callback is due interval seconds from now, unless
\* cancel() was called before start().
TimerStart(t, interval) ==
    IF t.st = "new" THEN [st |-> "running", at |-> now + interval] ELSE t

\* Timer.cancel(): no effect on a timer whose callback already ran or is running.
TimerCancel(t) ==
    IF t.st \in {"new", "running"} THEN [t EXCEPT !.st = "cancelled"] ELSE t

TimerDue(t) == t.st = "running" /\ t.at <= now

----------------------------------------------------------------------------
\* The program state as one record, threaded through the nested calls.

Cur ==
    [children |-> children, satisfied |-> satisfied, trigger |-> trigger,
     last_message |-> last_message, handlers |-> handlers, timer |-> timer,
     start_timer |-> start_timer, stop_timer |-> stop_timer,
     finished |-> finished, introspection_started |-> introspection_started,
     log |-> <<>>]

Commit(s) ==
    /\ children' = s.children
    /\ satisfied' = s.satisfied
    /\ trigger' = s.trigger
    /\ last_message' = s.last_message
    /\ handlers' = s.handlers
    /\ timer' = s.timer
    /\ start_timer' = s.start_timer
    /\ stop_timer' = s.stop_timer
    /\ finished' = s.finished
    /\ introspection_started' = s.introspection_started
    /\ log' = s.log
    /\ verdicts' = [r \in ReqIds |->
                       verdicts[r] \cup {s.log[i].type : i \in {j \in 1..Len(s.log) :
                                            s.log[j].dir = "up" /\ s.log[j].node = r}}]
    /\ reports' = [l \in LeafIds |->
                      reports[l] + Cardinality({j \in 1..Len(s.log) :
                                                  /\ s.log[j].dir = "up"
                                                  /\ s.log[j].type = "STATUS_CHANGE"
                                                  /\ s.log[j].node = l})]

Entry(type, n) == [dir |-> "entry", node |-> n, type |-> type, ts |-> 0]
Up(type, n) == [dir |-> "up", node |-> n, type |-> type, ts |-> 0]
Down(type, n, ts) == [dir |-> "down", node |-> n, type |-> type, ts |-> ts]
\* History: node n called start() on its timer of the given name.
Started(name, n) == [dir |-> "timer", node |-> n, type |-> name, ts |-> 0]

Logged(s, e) == [s EXCEPT !.log = Append(@, e)]

KindOf(r) == requirements[r].kind
TimeoutOf(r) == requirements[r].timeout

\* CommandHandler.children of node n, in list order.
ChildrenOf(s, n) ==
    IF n = Manager THEN s.children
    ELSE IF IsLeaf(n) THEN <<>>
    ELSE IF KindOf(n) \in TwoChildKinds THEN <<Child(n, 1), Child(n, 2)>>
    ELSE <<Child(n, 1)>>

----------------------------------------------------------------------------
\* Command protocol (command.py)

RECURSIVE handle_upstream_command(_, _, _)
RECURSIVE handle_downstream_command(_, _, _, _)
RECURSIVE send_downstream_seq(_, _, _, _)

\* CommandHandler.send_upstream_cmd: a direct call of the father's handler.
send_upstream_cmd(s, n, type) ==
    IF n = Manager THEN s
    ELSE handle_upstream_command(Logged(s, Up(type, n)), Father(n), type)

\* CommandHandler.send_child_downstream_cmd
send_child_downstream_cmd(s, child, type, ts) ==
    handle_downstream_command(Logged(s, Down(type, child, ts)), child, type, ts)

\* The loop of CommandHandler.send_downstream_cmd over the children cs.
send_downstream_seq(s, cs, type, ts) ==
    IF cs = <<>> THEN s
    ELSE send_downstream_seq(send_child_downstream_cmd(s, Head(cs), type, ts),
                             Tail(cs), type, ts)

\* CommandHandler.send_downstream_cmd
send_downstream_cmd(s, n, type, ts) ==
    send_downstream_seq(s, ChildrenOf(s, n), type, ts)

----------------------------------------------------------------------------
\* Message bus (ROSBridgeClient)

register_message_handler(s, l) == [s EXCEPT !.handlers = @ \cup {l}]
remove_message_handler(s, l) == [s EXCEPT !.handlers = @ \ {l}]

----------------------------------------------------------------------------
\* SimpleSimulationRequirementNode (simple.py)

Simple_connect_to_rosbridge(s, l) == register_message_handler(s, l)

Simple_disconnect_from_rosbridge(s, l) == remove_message_handler(s, l)

\* Variant: a triggered leaf reports whatever its last qualifying message was.
Simple_handle_trigger_unconditional(s, l, ts) ==
    send_upstream_cmd(Simple_disconnect_from_rosbridge([s EXCEPT !.trigger[l] = TRUE], l),
                      l, "STATUS_CHANGE")

Simple_handle_trigger(s, l, ts) ==
    LET s1 == [s EXCEPT !.trigger[l] = TRUE]
    IN  IF s1.last_message[l] > ts
        THEN send_upstream_cmd(Simple_disconnect_from_rosbridge(s1, l), l, "STATUS_CHANGE")
        ELSE s1

\* message_handler on a message for which ros_message_callback returns ok.
Simple_message_handler(s, l, ok) ==
    IF ~ok THEN s
    ELSE LET s1 == [s EXCEPT !.satisfied[l] = TRUE, !.last_message[l] = now]
         IN  IF s1.trigger[l]
             THEN send_upstream_cmd(Simple_disconnect_from_rosbridge(s1, l), l, "STATUS_CHANGE")
             ELSE s1

Simple_handle_downstream_command(s, l, type, ts) ==
    CASE type = "ROSBRIDGE_CONNECT" -> Simple_connect_to_rosbridge(s, l)
      [] type = "ROSBRIDGE_DISCONNECT" -> Simple_disconnect_from_rosbridge(s, l)
      [] type = "TRIGGER" -> Simple_handle_trigger(s, l, ts)
      [] OTHER -> s

----------------------------------------------------------------------------
\* Shared by the five requirement nodes

\* Variant: the timer is started before CONNECT is relayed to the children.
Node_handle_rosbridge_connection_commands_timer_first(s, r) ==
    LET s1 == IF TimeoutOf(r) # Inf
              THEN Logged([s EXCEPT !.timer[r] = TimerStart(@, TimeoutOf(r))],
                          Started("timer", r))
              ELSE s
    IN  send_downstream_cmd(s1, r, "ROSBRIDGE_CONNECT", 0)

\* handle_rosbridge_connection_commands: relay, then start the timer if finite.
Node_handle_rosbridge_connection_commands(s, r) ==
    LET s1 == send_downstream_cmd(s, r, "ROSBRIDGE_CONNECT", 0)
    IN  IF TimeoutOf(r) # Inf
        THEN Logged([s1 EXCEPT !.timer[r] = TimerStart(@, TimeoutOf(r))],
                    Started("timer", r))
        ELSE s1

\* handle_rosbridge_disconnection_commands of Existence, Absence, Requirement.
Node_handle_rosbridge_disconnection_commands(s, r) ==
    send_downstream_cmd([s EXCEPT !.timer[r] = TimerCancel(@)], r,
                        "ROSBRIDGE_DISCONNECT", 0)

----------------------------------------------------------------------------
\* ExistenceSimulationRequirementNode (existence.py)

Existence_assess_children_nodes(s, r) == s.satisfied[Child(r, 1)]

Existence_handle_children_status_change(s, r) ==
    IF Existence_assess_children_nodes(s, r)
    THEN LET s1 == [s EXCEPT !.satisfied[r] = TRUE, !.timer[r] = TimerCancel(@)]
             s2 == send_downstream_cmd(s1, r, "ROSBRIDGE_DISCONNECT", 0)
         IN  send_upstream_cmd(s2, r, "STATUS_CHANGE")
    ELSE s

\* Variant: the test of the flag is inverted.
Existence_handle_timeout_inverted(s, r) ==
    IF s.satisfied[r] THEN send_upstream_cmd(s, r, "STOP_SIMULATON") ELSE s

Existence_handle_timeout(s, r) ==
    IF ~s.satisfied[r] THEN send_upstream_cmd(s, r, "STOP_SIMULATON") ELSE s

----------------------------------------------------------------------------
\* AbsenceSimulationRequirementNode (absence.py)

Absence_assess_children_nodes(s, r) == ~s.satisfied[Child(r, 1)]

\* Variant: the violation is reported but the node's flag is left set.
Absence_handle_children_status_change_keeps_flag(s, r) ==
    IF ~Absence_assess_children_nodes(s, r)
    THEN LET s1 == [s EXCEPT !.timer[r] = TimerCancel(@)]
             s2 == send_downstream_cmd(s1, r, "ROSBRIDGE_DISCONNECT", 0)
         IN  send_upstream_cmd(s2, r, "STOP_SIMULATON")
    ELSE s

Absence_handle_children_status_change(s, r) ==
    IF ~Absence_assess_children_nodes(s, r)
    THEN LET s1 == [s EXCEPT !.satisfied[r] = FALSE, !.timer[r] = TimerCancel(@)]
             s2 == send_downstream_cmd(s1, r, "ROSBRIDGE_DISCONNECT", 0)
         IN  send_upstream_cmd(s2, r, "STOP_SIMULATON")
    ELSE s

Absence_handle_timeout(s, r) ==
    IF ~s.satisfied[r] THEN send_upstream_cmd(s, r, "STOP_SIMULATON") ELSE s

----------------------------------------------------------------------------
\* ResponseSimulationRequirementNode (response.py): children [anterior, posterior]

Response_assess_children_nodes(s, r) ==
    s.satisfied[Child(r, 1)] /\ s.satisfied[Child(r, 2)]

Response_handle_timeout(s, r) ==
    LET s1 == [s EXCEPT !.satisfied[r] = Response_assess_children_nodes(s, r)]
    IN  IF s1.satisfied[r]
        THEN send_downstream_cmd(send_upstream_cmd(s1, r, "STATUS_CHANGE"), r,
                                 "ROSBRIDGE_DISCONNECT", 0)
        ELSE send_upstream_cmd(s1, r, "STOP_SIMULATON")

\* Variant: the satisfaction is not reported to the father.
Response_handle_children_status_change_silent(s, r) ==
    IF ~s.trigger[Child(r, 2)]
    THEN send_child_downstream_cmd(s, Child(r, 2), "TRIGGER", s.last_message[Child(r, 1)])
    ELSE LET s1 == [s EXCEPT !.satisfied[r] = Response_assess_children_nodes(s, r)]
         IN  IF s1.satisfied[r]
             THEN send_downstream_cmd([s1 EXCEPT !.timer[r] = TimerCancel(@)], r,
                                      "ROSBRIDGE_DISCONNECT", 0)
             ELSE s1

Response_handle_children_status_change(s, r) ==
    IF ~s.trigger[Child(r, 2)]
    THEN send_child_downstream_cmd(s, Child(r, 2), "TRIGGER", s.last_message[Child(r, 1)])
    ELSE LET s1 == [s EXCEPT !.satisfied[r] = Response_assess_children_nodes(s, r)]
         IN  IF s1.satisfied[r]
             THEN LET s2 == [s1 EXCEPT !.timer[r] = TimerCancel(@)]
                      s3 == send_downstream_cmd(s2, r, "ROSBRIDGE_DISCONNECT", 0)
                  IN  send_upstream_cmd(s3, r, "STATUS_CHANGE")
             ELSE s1

Response_handle_trigger(s, r, ts) ==
    send_child_downstream_cmd(s, Child(r, 1), "TRIGGER", ts)

Response_handle_rosbridge_disconnection_commands(s, r) ==
    LET s1 == [s EXCEPT !.timer[r] = TimerCancel(@)]
        s2 == [s1 EXCEPT !.satisfied[r] = Response_assess_children_nodes(s1, r)]
        s3 == IF s2.satisfied[r] THEN send_upstream_cmd(s2, r, "STATUS_CHANGE") ELSE s2
    IN  send_downstream_cmd(s3, r, "ROSBRIDGE_DISCONNECT", 0)

----------------------------------------------------------------------------
\* RequirementSimulationRequirementNode (requirement.py): children [posterior, anterior]

\* The STOP that assess_children_nodes sends before it returns.
Requirement_assess_children_nodes_effect(s, r) ==
    IF s.satisfied[Child(r, 2)] /\ ~s.satisfied[Child(r, 1)]
    THEN send_upstream_cmd(s, r, "STOP_SIMULATON")
    ELSE s

\* The value assess_children_nodes returns.
Requirement_assess_children_nodes(s, r) ==
    s.satisfied[Child(r, 1)] /\ s.satisfied[Child(r, 2)]

Requirement_handle_children_status_change(s, r) ==
    LET s0 == Requirement_assess_children_nodes_effect(s, r)
    IN  IF Requirement_assess_children_nodes(s0, r)
        THEN LET s1 == [s0 EXCEPT !.satisfied[r] = TRUE, !.timer[r] = TimerCancel(@)]
                 s2 == send_downstream_cmd(s1, r, "ROSBRIDGE_DISCONNECT", 0)
             IN  send_upstream_cmd(s2, r, "STATUS_CHANGE")
        ELSE s0

Requirement_handle_timeout(s, r) ==
    IF ~s.satisfied[r] THEN send_upstream_cmd(s, r, "STOP_SIMULATON") ELSE s

----------------------------------------------------------------------------
\* PreventionSimulationRequirementNode (prevention.py): children [anterior, posterior]

Prevention_assess_children_nodes(s, r) ==
    s.satisfied[Child(r, 1)] /\ ~s.satisfied[Child(r, 2)]

Prevention_handle_timeout(s, r) ==
    LET s1 == [s EXCEPT !.satisfied[r] = Prevention_assess_children_nodes(s, r)]
    IN  IF s1.satisfied[r]
        THEN send_downstream_cmd(send_upstream_cmd(s1, r, "STATUS_CHANGE"), r,
                                 "ROSBRIDGE_DISCONNECT", 0)
        ELSE send_upstream_cmd(s1, r, "STOP_SIMULATON")

\* Variant: once Q is triggered a report of a child is left to the timer.
Prevention_handle_children_status_change_waits(s, r) ==
    IF ~s.trigger[Child(r, 2)]
    THEN send_child_downstream_cmd(s, Child(r, 2), "TRIGGER", s.last_message[Child(r, 1)])
    ELSE s

Prevention_handle_children_status_change(s, r) ==
    IF ~s.trigger[Child(r, 2)]
    THEN send_child_downstream_cmd(s, Child(r, 2), "TRIGGER", s.last_message[Child(r, 1)])
    ELSE send_upstream_cmd(s, r, "STOP_SIMULATON")

Prevention_handle_trigger(s, r, ts) ==
    send_child_downstream_cmd(s, Child(r, 1), "TRIGGER", ts)

Prevention_handle_rosbridge_disconnection_commands(s, r) ==
    LET s1 == [s EXCEPT !.timer[r] = TimerCancel(@)]
        s2 == [s1 EXCEPT !.satisfied[r] = Prevention_assess_children_nodes(s1, r)]
        s3 == IF s2.satisfied[r] THEN send_upstream_cmd(s2, r, "STATUS_CHANGE") ELSE s2
    IN  send_downstream_cmd(s3, r, "ROSBRIDGE_DISCONNECT", 0)

----------------------------------------------------------------------------
\* SimulationRequirementsManager (manager.py)

Manager_disconnect_from_rosbridge(s) ==
    send_downstream_cmd(s, Manager, "ROSBRIDGE_DISCONNECT", 0)

stop_timers(s) ==
    [s EXCEPT !.start_timer = TimerCancel(@), !.stop_timer = TimerCancel(@)]

\* Variant: the end of the run flips the flag.
stop_simulation_toggles(s) ==
    [Manager_disconnect_from_rosbridge(s) EXCEPT !.finished = ~@]

stop_simulation(s) ==
    [Manager_disconnect_from_rosbridge(s) EXCEPT !.finished = TRUE]

\* Variant: the children are assessed before the ignore window has expired.
Manager_assess_children_nodes_unarmed(s) ==
    IF s.children # <<>>
    THEN \A i \in 1..Len(s.children) : s.satisfied[s.children[i]]
    ELSE FALSE

\* Variant: a manager without children counts as satisfied once armed.
Manager_assess_children_nodes_vacuous(s) ==
    IF s.introspection_started
    THEN \A i \in 1..Len(s.children) : s.satisfied[s.children[i]]
    ELSE FALSE

Manager_assess_children_nodes(s) ==
    IF s.children # <<>> /\ s.introspection_started
    THEN \A i \in 1..Len(s.children) : s.satisfied[s.children[i]]
    ELSE FALSE

Manager_handle_children_status_change(s) ==
    IF Manager_assess_children_nodes(s) # s.satisfied[Manager]
    THEN LET s1 == [s EXCEPT !.satisfied[Manager] = ~@]
         IN  IF s1.satisfied[Manager] THEN stop_simulation(stop_timers(s1)) ELSE s1
    ELSE s

\* Variant: a STOP of a child cancels the timers and leaves the run going.
handle_stop_simulation_timers_only(s) == stop_timers(s)

handle_stop_simulation(s) == stop_simulation(stop_timers(s))

\* Variant: the TRIGGER carries the time of the expiry.
handle_start_timeout_now(s) ==
    LET s1 == [s EXCEPT !.introspection_started = TRUE]
        s2 == send_downstream_cmd(s1, Manager, "TRIGGER", now)
    IN  Manager_handle_children_status_change(s2)

\* build_trigger_cmd() is called without a timestamp: the payload is 0.0.
handle_start_timeout(s) ==
    LET s1 == [s EXCEPT !.introspection_started = TRUE]
        s2 == send_downstream_cmd(s1, Manager, "TRIGGER", 0)
    IN  Manager_handle_children_status_change(s2)

\* Variant: the hard deadline disconnects the tree and leaves the run going.
handle_stop_timeout_no_finish(s) == Manager_disconnect_from_rosbridge(s)

handle_stop_timeout(s) == stop_simulation(s)

Manager_connect_to_rosbridge(s) ==
    LET s1 == send_downstream_cmd(s, Manager, "ROSBRIDGE_CONNECT", 0)
        s2 == Logged([s1 EXCEPT !.start_timer = TimerStart(@, min_timeout)],
                     Started("start_timer", Manager))
    IN  Logged([s2 EXCEPT !.stop_timer = TimerStart(@, max_timeout)],
               Started("stop_timer", Manager))

Manager_handle_upstream_command(s, type) ==
    CASE type = "STATUS_CHANGE" -> Manager_handle_children_status_change(s)
      [] type = "STOP_SIMULATON" -> handle_stop_simulation(s)
      [] OTHER -> s

----------------------------------------------------------------------------
\* Dispatch on the class of the receiving node

Node_handle_children_status_change(s, r) ==
    CASE KindOf(r) = "Existence" -> Existence_handle_children_status_change(s, r)
      [] KindOf(r) = "Absence" -> Absence_handle_children_status_change(s, r)
      [] KindOf(r) = "Response" -> Response_handle_children_status_change(s, r)
      [] KindOf(r) = "Requirement" -> Requirement_handle_children_status_change(s, r)
      [] KindOf(r) = "Prevention" -> Prevention_handle_children_status_change(s, r)

Node_handle_timeout(s, r) ==
    CASE KindOf(r) = "Existence" -> Existence_handle_timeout(s, r)
      [] KindOf(r) = "Absence" -> Absence_handle_timeout(s, r)
      [] KindOf(r) = "Response" -> Response_handle_timeout(s, r)
      [] KindOf(r) = "Requirement" -> Requirement_handle_timeout(s, r)
      [] KindOf(r) = "Prevention" -> Prevention_handle_timeout(s, r)

Node_handle_downstream_command(s, r, type, ts) ==
    CASE type = "ROSBRIDGE_CONNECT" -> Node_handle_rosbridge_connection_commands(s, r)
      [] type = "ROSBRIDGE_DISCONNECT" ->
            CASE KindOf(r) = "Response" -> Response_handle_rosbridge_disconnection_commands(s, r)
              [] KindOf(r) = "Prevention" -> Prevention_handle_rosbridge_disconnection_commands(s, r)
              [] OTHER -> Node_handle_rosbridge_disconnection_commands(s, r)
      [] type = "TRIGGER" ->
            CASE KindOf(r) = "Response" -> Response_handle_trigger(s, r, ts)
              [] KindOf(r) = "Prevention" -> Prevention_handle_trigger(s, r, ts)
              [] OTHER -> send_downstream_cmd(s, r, "TRIGGER", ts)
      [] OTHER -> s

handle_upstream_command(s, n, type) ==
    IF n = Manager THEN Manager_handle_upstream_command(s, type)
    ELSE IF IsLeaf(n) THEN s
    ELSE IF type = "STATUS_CHANGE" THEN Node_handle_children_status_change(s, n)
    ELSE s

handle_downstream_command(s, n, type, ts) ==
    IF IsLeaf(n) THEN Simple_handle_downstream_command(s, n, type, ts)
    ELSE Node_handle_downstream_command(s, n, type, ts)

----------------------------------------------------------------------------
\* CallbackGenerator (callback.py): HPL predicates compiled to callbacks

\* A ROS message is a nested dictionary; a node of it is a dictionary or a number.
Val(v) == [dict |-> FALSE, value |-> v, items |-> <<>>]
Dict(f) == [dict |-> TRUE, value |-> 0, items |-> f]
Values == {0, 1}
Poses == {Val(1), Dict(<<>>)} \cup {Dict("x" :> v) : v \in {Val(0), Val(1)}}
Messages ==
    {Dict(<<>>)} \cup {Dict("x" :> Val(v)) : v \in Values}
                \cup {Dict("pose" :> p) : p \in Poses}
                \cup {Dict(("x" :> Val(v)) @@ ("pose" :> p)) : v \in Values, p \in Poses}
\* The messages the bus delivers to the leaves of the monitor: one on which
\* the leaf predicate holds, one on which it does not, one without its field.
BusMessages == {Dict("pose" :> p) : p \in Poses \ {Val(1)}}

\* The outcome of a call: a returned value, or a raised exception.
Ok(v) == [raised |-> FALSE, error |-> "", value |-> v]
Raised(e) == [raised |-> TRUE, error |-> e, value |-> FALSE]
NoResult == [raised |-> FALSE, error |-> "not called", value |-> FALSE]

\* HplBinaryOperator: a comparison of a field with a literal, or a connective
\* of two comparisons.
CompareOps == {"=", "!=", "<", "<=", ">", ">="}
OperandOps == {"=", "<"}
Connectives == {"iff", "implies", "and"}
Paths == {<<"x">>, <<"pose", "x">>}
Comparisons(ops) ==
    [op : ops, operand1 : Paths, operand2 : Values]
Predicates ==
    Comparisons(CompareOps)
        \cup [op : Connectives, operand1 : Comparisons(OperandOps),
                                operand2 : Comparisons(OperandOps)]

RECURSIVE field_path(_, _)
\* Variant: a key that is missing reads as the number 0.
field_path_default(content, path) ==
    LET next == Head(path)
    IN  IF ~content.dict THEN Raised("TypeError")
        ELSE IF next \notin DOMAIN content.items THEN Ok(Val(0))
        ELSE IF Len(path) = 1 THEN Ok(content.items[next])
        ELSE field_path(content.items[next], Tail(path))

\* __field_path: content[next] raises KeyError on a missing key and TypeError
\* on a content that is not a dictionary.
field_path(content, path) ==
    LET next == Head(path)
    IN  IF ~content.dict THEN Raised("TypeError")
        ELSE IF next \notin DOMAIN content.items THEN Raised("KeyError")
        ELSE IF Len(path) = 1 THEN Ok(content.items[next])
        ELSE field_path(content.items[next], Tail(path))

\* bool(field <op> value) of the six comparison callbacks; a dictionary is
\* different from every number and is not ordered with one.
compare(op, field, value) ==
    IF field.dict
    THEN CASE op = "=" -> Ok(FALSE)
           [] op = "!=" -> Ok(TRUE)
           [] OTHER -> Raised("TypeError")
    ELSE CASE op = "=" -> Ok(field.value = value)
           [] op = "!=" -> Ok(field.value # value)
           [] op = "<" -> Ok(field.value < value)
           [] op = "<=" -> Ok(field.value <= value)
           [] op = ">" -> Ok(field.value > value)
           [] op = ">=" -> Ok(field.value >= value)

\* generate_callback_equal and its five siblings.
generate_callback_compare(op, field, value) ==
    [msg \in Messages |->
        LET f == field_path(msg, field)
        IN  IF f.raised THEN f ELSE compare(op, f.value, value)]

generate_callback_iff(anterior, posterior) ==
    [msg \in Messages |->
        IF anterior[msg].raised THEN anterior[msg]
        ELSE IF anterior[msg].value THEN posterior[msg]
        ELSE Ok(FALSE)]

generate_callback_and(anterior, posterior) ==
    [msg \in Messages |->
        IF anterior[msg].raised THEN anterior[msg]
        ELSE IF posterior[msg].raised THEN posterior[msg]
        ELSE Ok(anterior[msg].value /\ posterior[msg].value)]

RECURSIVE process_binary_operator(_)
\* __extract_argument of an operand that is itself a binary operator.
extract_argument(operand) == process_binary_operator(operand)

process_binary_operator(operator) ==
    IF operator.op \in CompareOps
    THEN generate_callback_compare(operator.op, operator.operand1, operator.operand2)
    ELSE LET arg1 == extract_argument(operator.operand1)
             arg2 == extract_argument(operator.operand2)
         IN  IF operator.op \in {"iff", "implies"}
             THEN generate_callback_iff(arg2, arg1)
             ELSE generate_callback_and(arg1, arg2)

\* The predicate of every leaf of the monitor.
LeafPredicate == [op |-> "=", operand1 |-> <<"pose", "x">>, operand2 |-> 1]

----------------------------------------------------------------------------
\* Steps

MonitorInit ==
    /\ requirements \in RequirementLists
    /\ max_timeout \in 1..(MaxTime - 1)
    /\ min_timeout \in 0..(MaxTime - 1)
    /\ children = <<>>
    /\ satisfied = [n \in NodeIds |->
                      n \in DOMAIN requirements /\ requirements[n].kind = "Absence"]
    /\ trigger = [l \in LeafIds |-> FALSE]
    /\ last_message = [l \in LeafIds |-> 0]
    /\ handlers = {}
    /\ timer = [r \in ReqIds |-> NewTimer]
    /\ start_timer = NewTimer
    /\ stop_timer = NewTimer
    /\ finished = FALSE
    /\ introspection_started = FALSE
    /\ now = 1
    /\ stops = 0
    /\ connect_time = 0
    /\ delivered = [l \in LeafIds |-> {}]
    /\ log = <<>>
    /\ verdicts = [r \in ReqIds |-> {}]
    /\ cancels = 0
    /\ pending = [n \in ReqIds \cup LeafIds |-> "none"]
    /\ reports = [l \in LeafIds |-> 0]

Init ==
    /\ MonitorInit
    /\ hpl = LeafPredicate
    /\ message = Dict(<<>>)
    /\ result = NoResult

\* SimulationRequirementsParser.parse: the node of requirement i, or the
\* exception raised while its monitor is built.
parse(i) ==
    IF requirements[i].kind \in BuildErrors THEN Raised(requirements[i].kind)
    ELSE [raised |-> FALSE, error |-> "", value |-> i]

\* Variant: a requirement whose monitor cannot be built is left out.
parse_requirements_skipping ==
    [raised |-> FALSE, error |-> "",
     value |-> SelectSeq([i \in 1..Len(requirements) |-> i],
                         LAMBDA i : ~parse(i).raised)]

\* The list comprehension of start_introspection: every requirement is parsed
\* before any node is handed to the manager, and the first exception ends it.
parse_requirements ==
    IF \E i \in 1..Len(requirements) : parse(i).raised
    THEN LET first == CHOOSE i \in 1..Len(requirements) :
                         /\ parse(i).raised
                         /\ \A j \in 1..(i - 1) : ~parse(j).raised
         IN  [raised |-> TRUE, error |-> parse(first).error, value |-> <<>>]
    ELSE [raised |-> FALSE, error |-> "",
          value |-> [i \in 1..Len(requirements) |-> parse(i).value]]

\* SimulationRequirementsManager.add_children
add_children(s, nodes) == [s EXCEPT !.children = @ \o nodes]

\* Plugin.start_introspection: parse, add_children, connect_to_rosbridge.  An
\* exception of the parse leaves the call before add_children.
StartIntrospection ==
    /\ connect_time = 0
    /\ LET built == parse_requirements
       IN  IF built.raised
           THEN /\ log' = <<Entry(built.error, Manager)>>
                /\ UNCHANGED <<children, satisfied, trigger, last_message, handlers,
                               timer, start_timer, stop_timer, finished,
                               introspection_started, verdicts, reports, connect_time>>
           ELSE /\ Commit(Manager_connect_to_rosbridge(
                              add_children(Logged(Cur, Entry("START", Manager)),
                                           built.value)))
                /\ connect_time' = now
    /\ UNCHANGED <<cancels, pending, predvars, requirements, max_timeout, min_timeout, now, stops, delivered>>

\* The bus delivers a message to the registered handler of leaf l; ok is the
\* value the leaf's compiled predicate returns on it.
Deliver(l, ok) ==
    /\ l \in handlers
    /\ Commit(Simple_message_handler(
                  Logged(Cur, Entry(IF ok THEN "MESSAGE" ELSE "NO_MATCH", l)), l, ok))
    /\ delivered' = IF ok THEN [delivered EXCEPT ![l] = @ \cup {now}] ELSE delivered
    /\ UNCHANGED <<cancels, pending, predvars, requirements, max_timeout, min_timeout, now, stops, connect_time>>

\* The compiled predicate raises e in the first statement of message_handler
\* of leaf l, which has no handler for it: the call ends there.
Raise(l, e) ==
    /\ l \in handlers
    /\ log' = <<Entry(e, l)>>
    /\ UNCHANGED <<cancels, pending, predvars, requirements, max_timeout, min_timeout,
                   children, satisfied, trigger, last_message, handlers, timer,
                   start_timer, stop_timer, finished, introspection_started, now,
                   stops, connect_time, delivered, verdicts, reports>>

\* SimpleSimulationRequirementNode.message_handler of leaf l on message m.
message_handler(l, m) ==
    LET v == process_binary_operator(hpl)[m]
    IN  IF v.raised THEN Raise(l, v.error) ELSE Deliver(l, v.value)

\* The timer of requirement node r expires.
NodeTimeout(r) ==
    /\ TimerDue(timer[r])
    /\ LET s0 == Logged(Cur, Entry("TIMEOUT", r))
           s1 == [s0 EXCEPT !.timer[r].st = "fired"]
       IN  Commit(Node_handle_timeout(s1, r))
    /\ UNCHANGED <<cancels, pending, predvars, requirements, max_timeout, min_timeout, now, stops, connect_time,
                   delivered>>

\* The ignore-window timer expires.
StartTimeout ==
    /\ TimerDue(start_timer)
    /\ LET s0 == Logged(Cur, Entry("START_TIMEOUT", Manager))
           s1 == [s0 EXCEPT !.start_timer.st = "fired"]
       IN  Commit(handle_start_timeout(s1))
    /\ UNCHANGED <<cancels, pending, predvars, requirements, max_timeout, min_timeout, now, stops, connect_time,
                   delivered>>

\* The hard-deadline timer expires.
StopTimeout ==
    /\ TimerDue(stop_timer)
    /\ LET s0 == Logged(Cur, Entry("STOP_TIMEOUT", Manager))
           s1 == [s0 EXCEPT !.stop_timer.st = "fired"]
       IN  Commit(handle_stop_timeout(s1))
    /\ UNCHANGED <<cancels, pending, predvars, requirements, max_timeout, min_timeout, now, stops, connect_time,
                   delivered>>

\* Plugin.stop_introspection: the manager relays DISCONNECT downstream.
StopIntrospection ==
    /\ stops < MaxStops
    /\ Commit(Manager_disconnect_from_rosbridge(Logged(Cur, Entry("STOP", Manager))))
    /\ stops' = stops + 1
    /\ UNCHANGED <<cancels, pending, predvars, requirements, max_timeout, min_timeout, now, connect_time, delivered>>

\* Nothing reads the clock once no timer is running and no handler is registered.
Quiescent ==
    /\ handlers = {}
    /\ start_timer.st # "running"
    /\ stop_timer.st # "running"
    /\ \A r \in ReqIds : timer[r].st # "running"

\* The clock advances, unless a running timer is due.
Tick ==
    /\ connect_time # 0
    /\ ~Quiescent
    /\ now < MaxTime
    /\ ~TimerDue(start_timer)
    /\ ~TimerDue(stop_timer)
    /\ \A r \in ReqIds : ~TimerDue(timer[r])
    /\ \A n \in ReqIds \cup LeafIds : pending[n] = "none"
    /\ now' = now + 1
    /\ log' = <<Entry("TICK", Manager)>>
    /\ UNCHANGED <<cancels, pending, predvars, requirements, max_timeout, min_timeout, children, satisfied, trigger,
                   last_message, handlers, timer, start_timer, stop_timer, finished,
                   introspection_started, stops, connect_time, delivered, verdicts,
                   reports>>

Next ==
    \/ StartIntrospection
    \/ \E l \in LeafIds, m \in BusMessages : message_handler(l, m)
    \/ \E r \in ReqIds : NodeTimeout(r)
    \/ StartTimeout
    \/ StopTimeout
    \/ StopIntrospection
    \/ Tick

Spec == Init /\ [][Next]_vars

----------------------------------------------------------------------------
\* The run under the scheduling of threading.Timer and of the clock: time
\* passes, and a timer that is due fires.  The expiry of a timer is enabled
\* exactly when the timer is due and leaves it fired, so weak fairness of
\* StartTimeout, StopTimeout and NodeTimeout(r) is stated as: the timer is not
\* due forever.
LiveSpec ==
    /\ Spec
    /\ WF_vars(Tick)
    /\ []<>~TimerDue(start_timer)
    /\ []<>~TimerDue(stop_timer)
    /\ \A r \in ReqIds : []<>~TimerDue(timer[r])

----------------------------------------------------------------------------
\* The run with direct calls of the manager's cancellation path.

\* SimulationRequirementsManager.handle_stop_simulation, called by the harness
\* on a manager that was started.
Cancel ==
    /\ connect_time # 0
    /\ cancels < MaxCancels
    /\ Commit(handle_stop_simulation(Logged(Cur, Entry("CANCEL", Manager))))
    /\ cancels' = cancels + 1
    /\ UNCHANGED <<pending, predvars, requirements, max_timeout, min_timeout, now,
                   stops, connect_time, delivered>>

\* The harness ends the run by this path instead of Plugin.stop_introspection.
CancelNext ==
    \/ StartIntrospection
    \/ \E l \in LeafIds, m \in BusMessages : message_handler(l, m)
    \/ \E r \in ReqIds : NodeTimeout(r)
    \/ StartTimeout
    \/ StopTimeout
    \/ Cancel
    \/ Tick

CancelSpec == Init /\ [][CancelNext]_vars

----------------------------------------------------------------------------
\* The run with the timer thread interleaved: handle_timeout of a requirement
\* node runs on the thread of its threading.Timer and holds no lock, so other
\* handlers can run between its test and the branch it takes.

\* The assignment handle_timeout makes before its test.
handle_timeout_test(s, r) ==
    CASE KindOf(r) = "Response" ->
            [s EXCEPT !.satisfied[r] = Response_assess_children_nodes(s, r)]
      [] KindOf(r) = "Prevention" ->
            [s EXCEPT !.satisfied[r] = Prevention_assess_children_nodes(s, r)]
      [] OTHER -> s

\* The branch the test of handle_timeout selects.
handle_timeout_branch(s, r) ==
    IF ~handle_timeout_test(s, r).satisfied[r] THEN "stop"
    ELSE IF KindOf(r) \in {"Response", "Prevention"} THEN "report"
    ELSE "none"

\* The statements of the selected branch.
handle_timeout_body(s, r, branch) ==
    CASE branch = "stop" -> send_upstream_cmd(s, r, "STOP_SIMULATON")
      [] branch = "report" ->
            send_downstream_cmd(send_upstream_cmd(s, r, "STATUS_CHANGE"), r,
                                "ROSBRIDGE_DISCONNECT", 0)
      [] OTHER -> s

\* The timer of node r expires and handle_timeout evaluates its test.
TimeoutBegin(r) ==
    /\ TimerDue(timer[r])
    /\ pending[r] = "none"
    /\ LET s0 == Logged(Cur, Entry("TIMEOUT_TEST", r))
           s1 == [s0 EXCEPT !.timer[r].st = "fired"]
       IN  /\ Commit(handle_timeout_test(s1, r))
           /\ pending' = [pending EXCEPT ![r] = handle_timeout_branch(s1, r)]
    /\ UNCHANGED <<cancels, predvars, requirements, max_timeout, min_timeout, now,
                   stops, connect_time, delivered>>

\* handle_timeout of node r runs the branch it selected.
TimeoutEnd(r) ==
    /\ pending[r] # "none"
    /\ Commit(handle_timeout_body(Logged(Cur, Entry("TIMEOUT_BRANCH", r)), r, pending[r]))
    /\ pending' = [pending EXCEPT ![r] = "none"]
    /\ UNCHANGED <<cancels, predvars, requirements, max_timeout, min_timeout, now,
                   stops, connect_time, delivered>>

\* The bus thread runs one callback at a time.
BusIdle == \A l \in LeafIds : pending[l] = "none"

\* The assignments message_handler makes before its test of self.trigger.
message_handler_record(s, l) ==
    [s EXCEPT !.satisfied[l] = TRUE, !.last_message[l] = now]

\* The test of self.trigger in message_handler and the branch under it.
message_handler_test(s, l) ==
    IF s.trigger[l]
    THEN send_upstream_cmd(Simple_disconnect_from_rosbridge(s, l), l, "STATUS_CHANGE")
    ELSE s

\* message_handler of leaf l runs on the bus thread and holds no lock: on a
\* qualifying message it records the message, and the timer threads can run
\* before it tests self.trigger.
MessageBegin(l, m) ==
    /\ l \in handlers
    /\ BusIdle
    /\ LET v == process_binary_operator(hpl)[m]
       IN  ~v.raised /\ v.value
    /\ Commit(message_handler_record(Logged(Cur, Entry("MESSAGE_RECORD", l)), l))
    /\ delivered' = [delivered EXCEPT ![l] = @ \cup {now}]
    /\ pending' = [pending EXCEPT ![l] = "trigger_test"]
    /\ UNCHANGED <<cancels, predvars, requirements, max_timeout, min_timeout, now,
                   stops, connect_time>>

\* message_handler of leaf l tests self.trigger and runs the branch.
MessageEnd(l) ==
    /\ pending[l] = "trigger_test"
    /\ Commit(message_handler_test(Logged(Cur, Entry("MESSAGE_TEST", l)), l))
    /\ pending' = [pending EXCEPT ![l] = "none"]
    /\ UNCHANGED <<cancels, predvars, requirements, max_timeout, min_timeout, now,
                   stops, connect_time, delivered>>

RaceNext ==
    \/ StartIntrospection
    \/ \E l \in LeafIds, m \in BusMessages : BusIdle /\ message_handler(l, m)
    \/ \E l \in LeafIds, m \in BusMessages : MessageBegin(l, m)
    \/ \E l \in LeafIds : MessageEnd(l)
    \/ \E r \in ReqIds : TimeoutBegin(r)
    \/ \E r \in ReqIds : TimeoutEnd(r)
    \/ StartTimeout
    \/ StopTimeout
    \/ StopIntrospection
    \/ Tick

RaceSpec == Init /\ [][RaceNext]_vars

----------------------------------------------------------------------------
\* The predicate compiler on its own: a predicate is compiled and the callback
\* is applied to a message.

PredInit ==
    /\ MonitorInit
    /\ requirements = <<>> /\ max_timeout = 1 /\ min_timeout = 0
    /\ hpl \in Predicates
    /\ message \in Messages
    /\ result = NoResult

\* process_binary_operator(hpl) is called on the message.
Evaluate ==
    /\ result = NoResult
    /\ result' = process_binary_operator(hpl)[message]
    /\ UNCHANGED <<hpl, message, cancels, pending, requirements, max_timeout,
                   min_timeout, children, satisfied, trigger, last_message, handlers,
                   timer, start_timer, stop_timer, finished, introspection_started,
                   now, stops, connect_time, delivered, log, verdicts, reports>>

PredNext == Evaluate

PredSpec == PredInit /\ [][PredNext]_vars

----------------------------------------------------------------------------
\* Vocabulary of the properties

Reqs == DOMAIN requirements
Has(lg, e) == \E i \in 1..Len(lg) : lg[i] = e
EntryOf(lg) == IF lg = <<>> THEN Entry("NONE", Manager) ELSE lg[1]
SentUp(lg) == {i \in 1..Len(lg) : lg[i].dir = "up"}
Finite(r) == TimeoutOf(r) # Inf
\* The tick at which the timer of requirement node r is due.
Deadline(r) == connect_time + TimeoutOf(r)
\* Anterior (P) and posterior (Q) events of the two-child patterns.
P(r) == IF KindOf(r) = "Requirement" THEN Child(r, 2) ELSE Child(r, 1)
Q(r) == IF KindOf(r) = "Requirement" THEN Child(r, 1) ELSE Child(r, 2)
\* The clock does not order two messages of the same tick: where a property
\* speaks of "before" or "after", the reading that favours it is taken.

----------------------------------------------------------------------------
\* C1 (as claimed): at the end of the run a Response node with a finite window
\* is satisfied if and only if P was satisfied at some t1 and Q at some t2 with
\* t1 < t2 <= t1 + window.
C1_ResponseSatisfiedIffFollowedWithinWindow ==
    \A r \in Reqs :
        (KindOf(r) = "Response" /\ Finite(r) /\ finished) =>
            /\ satisfied[r] =>
                 \E t1 \in delivered[P(r)], t2 \in delivered[Q(r)] :
                     t1 <= t2 /\ t2 <= t1 + TimeoutOf(r)
            /\ (\E t1 \in delivered[P(r)], t2 \in delivered[Q(r)] :
                     t1 < t2 /\ t2 <= t1 + TimeoutOf(r)) => satisfied[r]

----------------------------------------------------------------------------
\* C2 (as claimed): a Precedence node is satisfied only if both P and Q were
\* satisfied and P's satisfaction precedes Q's; a run in which every
\* satisfying message of Q precedes every one of P never sets it satisfied.
C2_PrecedenceSatisfiedOnlyIfPBeforeQ ==
    \A r \in Reqs :
        (KindOf(r) = "Requirement" /\ satisfied[r]) =>
            \E t1 \in delivered[P(r)], t2 \in delivered[Q(r)] : t1 <= t2

----------------------------------------------------------------------------
\* C3 (as claimed): in a Precedence node with children [Q, P], the step in
\* which Q reports its satisfaction while P is unsatisfied sends STOP upstream
\* and finishes the run, and the step in which P reports its satisfaction
\* while Q is unsatisfied sends no STOP.
C3_PrecedenceStopsWhenQWithoutP ==
    [][\A r \in Reqs :
          KindOf(r) = "Requirement" =>
            /\ (Has(log', Up("STATUS_CHANGE", Q(r))) /\ ~satisfied'[P(r)]) =>
                   (Has(log', Up("STOP_SIMULATON", r)) /\ finished')
            /\ (Has(log', Up("STATUS_CHANGE", P(r))) /\ ~satisfied'[Q(r)]) =>
                   ~Has(log', Up("STOP_SIMULATON", r))]_vars

----------------------------------------------------------------------------
\* C4 (as claimed): an Absence node with a finite deadline, whose child handled
\* no qualifying message up to the deadline, is satisfied at the end of the
\* run, also when a qualifying message comes after the deadline.
C4_AbsenceHoldsWhenNoMessageBeforeDeadline ==
    \A r \in Reqs :
        (/\ KindOf(r) = "Absence" /\ Finite(r) /\ finished
         /\ \A t \in delivered[Child(r, 1)] : t > Deadline(r)) => satisfied[r]

----------------------------------------------------------------------------
\* C5 (as claimed): once a qualifying message was delivered to the child of an
\* Absence node, the node's satisfied flag is false.
C5_AbsenceFalseAtDelivery ==
    \A r \in Reqs :
        (KindOf(r) = "Absence" /\ delivered[Child(r, 1)] # {}) => ~satisfied[r]

\* C5 (amended): once a qualifying message was delivered to the child of an
\* Absence node, the node's satisfied flag is false exactly when the child has
\* received TRIGGER: a message of the ignore window leaves the flag true until
\* TRIGGER reaches the child, a later one clears it at its delivery.
C5_AbsenceFalseOnceTriggered ==
    \A r \in Reqs :
        (KindOf(r) = "Absence" /\ delivered[Child(r, 1)] # {}) =>
            (satisfied[r] <=> ~trigger[Child(r, 1)])

\* C5 witness: the child matched during the ignore window and TRIGGER has
\* reached it since.
C5_Witness ==
    \E r \in Reqs :
        /\ KindOf(r) = "Absence" /\ trigger[Child(r, 1)] /\ ~satisfied[r]
        /\ \E t \in delivered[Child(r, 1)] : t < connect_time + min_timeout

----------------------------------------------------------------------------
\* C6 (as claimed): at the end of the run an Existence node with a finite
\* deadline is satisfied if and only if its child handled a qualifying message
\* before the deadline, counted from CONNECT.
C6_ExistenceSatisfiedIffMessageBeforeDeadline ==
    \A r \in Reqs :
        (KindOf(r) = "Existence" /\ Finite(r) /\ finished) =>
            /\ satisfied[r] => \E t \in delivered[Child(r, 1)] : t <= Deadline(r)
            /\ (\E t \in delivered[Child(r, 1)] : t < Deadline(r)) => satisfied[r]

----------------------------------------------------------------------------
\* C7 (as claimed): DISCONNECT relayed to a tree that was already disconnected
\* changes no node state and sends no upstream command.
C7_DisconnectIdempotent ==
    [][(finished /\ EntryOf(log') = Entry("STOP", Manager)) =>
          /\ SentUp(log') = {}
          /\ UNCHANGED <<satisfied, trigger, last_message, handlers, timer,
                         start_timer, stop_timer, finished, introspection_started>>]_vars

----------------------------------------------------------------------------
\* C8: when the timer of an Existence node whose window is shorter than the
\* hard deadline expires and no qualifying message was delivered to its child,
\* the node sends STOP upstream and the manager sets finished in that step, at
\* the node's deadline and before the hard deadline, and the node and its leaf
\* are unsatisfied.
C8_ExistenceTimeoutStopsRun ==
    [][\A r \in Reqs :
          (/\ KindOf(r) = "Existence" /\ TimeoutOf(r) < max_timeout
           /\ EntryOf(log') = Entry("TIMEOUT", r)
           /\ delivered[Child(r, 1)] = {}) =>
              /\ Has(log', Up("STOP_SIMULATON", r))
              /\ ~finished /\ finished'
              /\ now = Deadline(r) /\ now < connect_time + max_timeout
              /\ stop_timer.st = "running" /\ stop_timer'.st = "cancelled"
              /\ ~satisfied'[r] /\ ~satisfied'[Child(r, 1)]]_vars

\* C8 witness: Scenario A after the expiry of the Existence timer.
C8_Witness ==
    /\ Len(requirements) = 1 /\ KindOf(1) = "Existence"
    /\ TimeoutOf(1) < max_timeout
    /\ EntryOf(log) = Entry("TIMEOUT", 1)
    /\ delivered[Child(1, 1)] = {}
    /\ finished /\ ~satisfied[1] /\ now = Deadline(1)

----------------------------------------------------------------------------
\* C9: with a single Response requirement and the ignore window expired, once
\* P was delivered, the handling of a qualifying message of Q sets the Response
\* node satisfied, sends STATUS_CHANGE to the manager and sets finished, while
\* the Response timer and the hard-deadline timer have not expired.
C9_ResponseFinishesAtQ ==
    [][(/\ Len(requirements) = 1 /\ KindOf(1) = "Response"
        /\ introspection_started /\ delivered[P(1)] # {}
        /\ EntryOf(log') = Entry("MESSAGE", Q(1))) =>
           /\ satisfied'[1] /\ Has(log', Up("STATUS_CHANGE", 1))
           /\ satisfied'[Manager]
           /\ ~finished /\ finished'
           /\ timer[1].st # "fired" /\ stop_timer.st = "running"]_vars

\* C9 witness: Scenario B, P delivered no earlier than the expiry of the ignore
\* window and Q on a later tick, before the window and the hard deadline end.
C9_Witness ==
    /\ Len(requirements) = 1 /\ KindOf(1) = "Response" /\ Finite(1)
    /\ EntryOf(log) = Entry("MESSAGE", Q(1))
    /\ \A t \in delivered[P(1)] \cup delivered[Q(1)] : connect_time + min_timeout <= t
    /\ \E t1 \in delivered[P(1)] : t1 < now
    /\ now < Deadline(1) /\ now < connect_time + max_timeout
    /\ satisfied[1] /\ finished

----------------------------------------------------------------------------
\* C10: a qualifying message handled by a leaf before the ignore window expires
\* sets the leaf's satisfied flag and timestamp, keeps its subscription and
\* sends nothing upstream; at the expiry of the ignore window the first child of
\* every requirement that matched reports upstream, and an Absence node whose
\* child matched becomes false, sends STOP to the manager, and finished is set.
C10_IgnoreWindowDelaysEvaluation ==
    [][/\ \A l \in LeafIds :
            (~introspection_started /\ EntryOf(log') = Entry("MESSAGE", l)) =>
                /\ satisfied'[l] /\ last_message'[l] = now
                /\ l \in handlers'
                /\ SentUp(log') = {}
                /\ satisfied' = [satisfied EXCEPT ![l] = TRUE]
       /\ \A r \in Reqs :
            (/\ EntryOf(log') = Entry("START_TIMEOUT", Manager)
             /\ delivered[Child(r, 1)] # {}) =>
                /\ Has(log', Up("STATUS_CHANGE", Child(r, 1)))
                /\ KindOf(r) = "Absence" =>
                      /\ satisfied[r] /\ ~satisfied'[r]
                      /\ Has(log', Up("STOP_SIMULATON", r))
                      /\ finished']_vars

\* C10 witness: Scenario C after the expiry of the ignore window.
C10_Witness ==
    /\ Len(requirements) = 2 /\ KindOf(1) = "Absence" /\ KindOf(2) = "Existence"
    /\ min_timeout = 2
    /\ delivered[Child(1, 1)] = {connect_time + 1}
    /\ EntryOf(log) = Entry("START_TIMEOUT", Manager)
    /\ ~satisfied[1] /\ finished

----------------------------------------------------------------------------
\* C11: the manager's satisfied flag is true only if the ignore window has
\* expired, and the step that takes the flag from false to true finds every
\* child requirement satisfied, leaves neither manager timer running (cancel
\* was called on both), relays DISCONNECT to every child and sets finished.
C11_ManagerSatisfiedOnlyWhenArmedAndAllSatisfied ==
    /\ [](satisfied[Manager] => introspection_started)
    /\ [][(~satisfied[Manager] /\ satisfied'[Manager]) =>
            /\ introspection_started'
            /\ children' # <<>>
            /\ \A i \in 1..Len(children') :
                  /\ satisfied'[children'[i]]
                  /\ Has(log', Down("ROSBRIDGE_DISCONNECT", children'[i], 0))
            /\ start_timer'.st \in {"cancelled", "fired"}
            /\ stop_timer'.st \in {"cancelled", "fired"}
            /\ finished']_vars

\* C11 witness: two requirements, the manager satisfied after the ignore window
\* expired and before the hard deadline.
C11_Witness ==
    /\ Len(requirements) = 2 /\ satisfied[Manager] /\ finished
    /\ satisfied[1] /\ satisfied[2]
    /\ start_timer.st = "fired" /\ stop_timer.st = "cancelled"

----------------------------------------------------------------------------
\* C12: a step in which a child sends STOP upstream to the manager, or in which
\* the hard-deadline timer expires, relays DISCONNECT to every child of the
\* manager and sets finished, whatever the children's flags are and whether or
\* not the ignore window has expired.
C12_StopOrDeadlineFinishesRun ==
    [][((\E r \in Reqs : Has(log', Up("STOP_SIMULATON", r)))
          \/ EntryOf(log') = Entry("STOP_TIMEOUT", Manager)) =>
            /\ finished'
            /\ \A i \in 1..Len(children') :
                  Has(log', Down("ROSBRIDGE_DISCONNECT", children'[i], 0))]_vars

\* C12 witness: a node's timer expired before the ignore window did and the
\* node sent STOP, its leaf being satisfied, and the run finished.
C12_Witness ==
    /\ ~introspection_started /\ finished
    /\ \E r \in Reqs : Has(log, Up("STOP_SIMULATON", r)) /\ satisfied[Child(r, 1)]

----------------------------------------------------------------------------
\* C13: with no requirements the manager's satisfied flag is false in every
\* state, the expiry of the ignore window leaves finished as it was, and
\* finished becomes true only in the step of the hard-deadline expiry.
C13_NoRequirementsRunToDeadline ==
    /\ [](Len(requirements) = 0 => ~satisfied[Manager])
    /\ [][Len(requirements) = 0 =>
            /\ (EntryOf(log') = Entry("START_TIMEOUT", Manager) => finished' = finished)
            /\ ((~finished /\ finished') =>
                    EntryOf(log') = Entry("STOP_TIMEOUT", Manager))]_vars

\* C13 witness: no requirements, the ignore window expired earlier, and the
\* hard deadline has just finished the run.
C13_Witness ==
    /\ Len(requirements) = 0 /\ introspection_started /\ finished
    /\ ~satisfied[Manager]
    /\ EntryOf(log) = Entry("STOP_TIMEOUT", Manager)

----------------------------------------------------------------------------
\* C14: once the manager has been started, finished eventually becomes true,
\* for every list of requirements and every message stream; until then the
\* hard-deadline timer is running, the step in which it expires sets finished,
\* and a step that cancels it sets finished too.
C14_RunEventuallyFinishes ==
    /\ (connect_time # 0) ~> finished
    /\ []((connect_time # 0 /\ ~finished) => stop_timer.st = "running")
    /\ [][EntryOf(log') = Entry("STOP_TIMEOUT", Manager) => finished']_vars
    /\ [][(stop_timer.st = "running" /\ stop_timer'.st = "cancelled") => finished']_vars

\* C14 witness: two requirements, neither verdict nor STOP came, and the expiry
\* of the hard deadline has finished the run.
C14_Witness ==
    /\ Len(requirements) = 2 /\ finished /\ ~satisfied[Manager]
    /\ stop_timer.st = "fired" /\ now = connect_time + max_timeout
    /\ EntryOf(log) = Entry("STOP_TIMEOUT", Manager)

----------------------------------------------------------------------------
\* C15: the manager's cancellation path (handle_stop_simulation: cancel both
\* timers, relay DISCONNECT, set finished) can be called in any state of a
\* started manager (before the ignore window expires, later, after the run
\* finished); it leaves finished true, finished stays true afterwards, and a call made
\* right after a call leaves finished and every node's satisfied flag as they
\* were.  (After a call made on a started manager no other step is possible,
\* so every later call is of this kind.)
C15_CancelIdempotent ==
    /\ [][EntryOf(log') = Entry("CANCEL", Manager) =>
            /\ finished'
            /\ start_timer'.st # "running" /\ stop_timer'.st # "running"
            /\ \A i \in 1..Len(children') :
                  Has(log', Down("ROSBRIDGE_DISCONNECT", children'[i], 0))]_vars
    /\ [][finished => finished']_vars
    /\ [][(/\ EntryOf(log) = Entry("CANCEL", Manager)
            /\ EntryOf(log') = Entry("CANCEL", Manager)) =>
               UNCHANGED <<finished, satisfied>>]_vars

\* C15 witness: the path was called before the ignore window expired, with
\* both leaves of a two-child requirement satisfied, and then a second time.
C15_Witness ==
    /\ cancels = 2 /\ connect_time # 0 /\ ~introspection_started /\ finished
    /\ stop_timer.st = "cancelled" /\ stop_timer.at # 0
    /\ EntryOf(log) = Entry("CANCEL", Manager)
    /\ \E r \in Reqs : KindOf(r) \in TwoChildKinds
                        /\ satisfied[Child(r, 1)] /\ satisfied[Child(r, 2)]

----------------------------------------------------------------------------
\* C16 (as claimed): the handlers of one node exclude each other: while the
\* timer callback of a requirement node is between its test and the branch it
\* selected, no step of another thread runs a handler of that node (the
\* handling of a command from its father or of a command from a child).
C16_HandlersMutuallyExclusive ==
    [][\A r \in Reqs :
          (pending[r] # "none" /\ EntryOf(log') # Entry("TIMEOUT_BRANCH", r)) =>
              \A i \in 1..Len(log') :
                  /\ ~(log'[i].dir = "down" /\ log'[i].node = r)
                  /\ ~(log'[i].dir = "up" /\ Father(log'[i].node) = r)]_vars

----------------------------------------------------------------------------
\* C17 (as claimed): a requirement node reports at most one verdict upstream in
\* a run: it never sends both STATUS_CHANGE and STOP, however its timer
\* callback interleaves with a STATUS_CHANGE of a child.
C17_AtMostOneVerdict ==
    \A r \in Reqs : ~({"STATUS_CHANGE", "STOP_SIMULATON"} \subseteq verdicts[r])

----------------------------------------------------------------------------
\* C18 (as claimed): once a requirement node has sent its verdict upstream
\* (STATUS_CHANGE or STOP), no downstream command other than DISCONNECT is
\* delivered to it or to its leaves, in a later step or later in the same step.
C18_OnlyDisconnectAfterVerdict ==
    [][\A r \in Reqs :
          \A j \in 1..Len(log') :
              (/\ log'[j].dir = "down"
               /\ (log'[j].node = r \/ Father(log'[j].node) = r)
               /\ \/ verdicts[r] # {}
                  \/ \E i \in 1..(j - 1) : log'[i].dir = "up" /\ log'[i].node = r) =>
                  log'[j].type = "ROSBRIDGE_DISCONNECT"]_vars

----------------------------------------------------------------------------
\* C19 (as claimed): the callback compiled from implies(A, B), A the first
\* operand and B the second, evaluates A first and consults B only when A
\* holds: it returns B(msg) when A(msg) is true and false when A(msg) is false,
\* also when the evaluation of B on the message would fail.
C19_ImpliesEvaluatesFirstOperandFirst ==
    (hpl.op = "implies" /\ result # NoResult) =>
        LET a == process_binary_operator(hpl.operand1)[message]
            b == process_binary_operator(hpl.operand2)[message]
        IN  result = IF a.raised THEN a
                     ELSE IF a.value THEN b
                     ELSE Ok(FALSE)

----------------------------------------------------------------------------
\* C20: on a message against which the field path of a leaf's predicate does
\* not resolve (a key of the path is missing), the compiled callback raises
\* KeyError instead of returning false, and the step in which message_handler
\* ends by that error leaves every satisfied flag, timestamp, trigger flag and
\* subscription as it was and sends no command upstream.
C20_UnresolvedFieldPropagates ==
    /\ [](\A m \in BusMessages :
            (\/ "pose" \notin DOMAIN m.items
             \/ m.items["pose"].dict /\ "x" \notin DOMAIN m.items["pose"].items) =>
                process_binary_operator(hpl)[m] = Raised("KeyError"))
    /\ [][\A l \in LeafIds :
            EntryOf(log') = Entry("KeyError", l) =>
                /\ UNCHANGED <<satisfied, last_message, trigger, handlers, delivered,
                               verdicts, finished>>
                /\ Len(log') = 1]_vars

\* C20 witness: an armed, subscribed leaf whose handler has just ended by
\* KeyError.
C20_Witness ==
    \E l \in LeafIds :
        /\ EntryOf(log) = Entry("KeyError", l)
        /\ trigger[l] /\ l \in handlers /\ ~satisfied[l] /\ ~finished

----------------------------------------------------------------------------
\* Some requirement of the list cannot be built.
BuildFails == \E i \in 1..Len(requirements) : requirements[i].kind \in BuildErrors

\* C21: when the construction of any requirement's monitor fails, the manager
\* adopts no node (not even those of the requirements that were built), no
\* CONNECT is relayed, so no leaf is subscribed, and no timer is ever started;
\* the call of start_introspection ends with the exception of the first
\* requirement that fails.
C21_BuildFailureStartsNothing ==
    /\ [](BuildFails =>
            /\ children = <<>>
            /\ handlers = {}
            /\ connect_time = 0
            /\ start_timer.st \in {"new", "cancelled"}
            /\ stop_timer.st \in {"new", "cancelled"}
            /\ \A r \in ReqIds : timer[r].st \in {"new", "cancelled"}
            /\ \A i \in 1..Len(log) : log[i].type # "ROSBRIDGE_CONNECT")
    /\ [][(BuildFails /\ connect_time = 0 /\ log' # log /\ EntryOf(log').type \notin {"STOP", "CANCEL"})
            => /\ EntryOf(log').type \in BuildErrors
               /\ Len(log') = 1]_vars

\* A list whose first requirement was built and whose second was not: the
\* start was attempted and ended with the exception.
C21_Witness ==
    /\ Len(requirements) = 2
    /\ requirements[1].kind \in Kinds
    /\ requirements[2].kind \in BuildErrors
    /\ EntryOf(log).type = requirements[2].kind
    /\ children = <<>>

\* C22: a Prevention node becomes satisfied, and reports STATUS_CHANGE, only
\* in the step of its own timer expiry, with P satisfied and Q never
\* satisfied; no other event of the run does either.
C22_PreventionSatisfiedOnlyAtOwnExpiry ==
    [][\A r \in Reqs :
          (/\ KindOf(r) = "Prevention"
           /\ \/ ~satisfied[r] /\ satisfied'[r]
              \/ log' # log /\ Has(log', Up("STATUS_CHANGE", r)))
          => /\ EntryOf(log') = Entry("TIMEOUT", r)
             /\ satisfied'[P(r)]
             /\ delivered'[Q(r)] = {}]_vars

\* C23: when the timer of a Prevention node expires, the node sends STOP if P
\* was satisfied and Q was satisfied after P; when P was never satisfied the
\* expiry sends no STOP.
C23_PreventionExpiryStopsOnlyAfterPThenQ ==
    [][\A r \in Reqs :
          (KindOf(r) = "Prevention" /\ log' # log /\ EntryOf(log') = Entry("TIMEOUT", r))
          => /\ (\E t1 \in delivered[P(r)], t2 \in delivered[Q(r)] : t1 < t2)
                    => Has(log', Up("STOP_SIMULATON", r))
             /\ delivered[P(r)] = {} => ~Has(log', Up("STOP_SIMULATON", r))]_vars

\* The positions of entry e in the log lg.
Positions(lg, e) == {i \in 1..Len(lg) : lg[i] = e}
\* The positions in lg at which CONNECT is handed to a child of node n.
Relays(lg, n) ==
    {i \in 1..Len(lg) : /\ lg[i].dir = "down"
                       /\ lg[i].type = "ROSBRIDGE_CONNECT"
                       /\ Father(lg[i].node) = n}

\* C24: a requirement node that receives CONNECT hands it to all its children
\* first, and starts its timer after that, when every leaf below it is
\* registered on the bus, and only if its timeout is finite; the timer of a
\* node without a time bound is never started.  The manager starts its two
\* timers after CONNECT went to all its children.
C24_TimersStartAfterConnectRelay ==
    /\ [][\A r \in Reqs :
             (log' # log /\ Has(log', Down("ROSBRIDGE_CONNECT", r, 0)))
             => /\ Cardinality(Relays(log', r)) = Len(ChildrenOf(Cur, r))
                /\ \A i \in 1..Len(ChildrenOf(Cur, r)) : ChildrenOf(Cur, r)[i] \in handlers'
                /\ Finite(r) <=> Positions(log', Started("timer", r)) # {}
                /\ \A k \in Positions(log', Started("timer", r)) :
                      \A j \in Relays(log', r) : j < k
                /\ Finite(r) => timer'[r] = [st |-> "running", at |-> now + TimeoutOf(r)]
                /\ ~Finite(r) => timer'[r] = NewTimer]_vars
    /\ [][(log' # log /\ EntryOf(log') = Entry("START", Manager))
             => /\ Cardinality(Relays(log', Manager)) = Len(requirements)
                /\ Positions(log', Started("start_timer", Manager)) # {}
                /\ Positions(log', Started("stop_timer", Manager)) # {}
                /\ \A k \in Positions(log', Started("start_timer", Manager))
                             \cup Positions(log', Started("stop_timer", Manager)) :
                      \A j \in 1..Len(log') :
                         (log'[j].dir = "down" /\ log'[j].type = "ROSBRIDGE_CONNECT") => j < k]_vars
    /\ [](\A r \in Reqs : ~Finite(r) => timer[r].st \in {"new", "cancelled"})
    /\ [][\A r \in ReqIds :
             (timer[r].st # "running" /\ timer'[r].st = "running")
             => Has(log', Down("ROSBRIDGE_CONNECT", r, 0))]_vars

\* A run was started with a time-bounded two-leaf node next to an unbounded
\* node: the first node's timer runs, the second node's timer was not started.
C24_Witness ==
    /\ EntryOf(log) = Entry("START", Manager)
    /\ Len(requirements) = 2
    /\ Finite(1) /\ ~Finite(2)
    /\ timer[1].st = "running" /\ timer[2].st = "new"
    /\ handlers = {Child(1, 1), Child(2, 1)}
    /\ start_timer.st = "running" /\ stop_timer.st = "running"

\* The second child of node r has been triggered before position j of the
\* step whose log is lg.
TriggeredBefore(lg, r, j) ==
    \/ trigger[Child(r, 2)]
    \/ \E k \in 1..(j - 1) : lg[k].dir = "down" /\ lg[k].type = "TRIGGER"
                                                /\ lg[k].node = Child(r, 2)

\* The relay of TRIGGER to the second child in the nodes of the given kinds.
TriggerRelay(kinds) ==
    \A r \in Reqs : (KindOf(r) \in kinds /\ log' # log) =>
          /\ \A j \in 1..Len(log') :
                (log'[j] = Up("STATUS_CHANGE", Child(r, 1)) /\ ~TriggeredBefore(log', r, j))
                => /\ j < Len(log')
                   /\ log'[j + 1] = Down("TRIGGER", Child(r, 2), last_message'[Child(r, 1)])
          /\ \A k \in 1..Len(log') :
                (log'[k].dir = "down" /\ log'[k].type = "TRIGGER" /\ log'[k].node = Child(r, 2))
                => /\ k > 1
                   /\ log'[k - 1] = Up("STATUS_CHANGE", Child(r, 1))

\* C25: in a Response, Precedence or Prevention node, a STATUS_CHANGE of the
\* first child received while the second child is not triggered is answered by
\* TRIGGER to the second child alone, with the first child's timestamp, before
\* any evaluation or upstream command; the second child receives TRIGGER on no
\* other path.
C25_TriggerRelayedToSecondChildOnly == [][TriggerRelay(TwoChildKinds)]_vars

C27_TriggerCarriesExpiryTime ==
    [][(log' # log /\ EntryOf(log') = Entry("START_TIMEOUT", Manager))
          => /\ introspection_started'
             /\ \A i \in 1..Len(children) :
                   Has(log', Down("TRIGGER", children[i], now))]_vars

\* The messages that satisfy requirement r have been handled: the child of an
\* Existence node matched, the child of an Absence node did not, a two-child
\* node saw P and later Q (no message of P and message of Q on the same
\* tick, where the clock does not tell which came first).
Ready(r) ==
    CASE KindOf(r) = "Existence" -> delivered[Child(r, 1)] # {}
      [] KindOf(r) = "Absence" -> delivered[Child(r, 1)] = {}
      [] KindOf(r) \in {"Response", "Requirement"} ->
            /\ \E t1 \in delivered[P(r)], t2 \in delivered[Q(r)] : t1 < t2
            /\ delivered[P(r)] \cap delivered[Q(r)] = {}
      [] OTHER -> FALSE

\* C28: when the ignore window expires and the messages that satisfy every
\* requirement were handled during the window, the expiry step leaves the
\* manager satisfied and the run finished.
C28_SatisfiedInIgnoreWindowFinishesAtExpiry ==
    [][(/\ log' # log
        /\ EntryOf(log') = Entry("START_TIMEOUT", Manager)
        /\ children # <<>>
        /\ \A r \in Reqs : Ready(r))
          => satisfied'[Manager] /\ finished']_vars

\* C29: a leaf sends STATUS_CHANGE at most once in a run, however the delivery
\* of bus messages interleaves with the delivery of TRIGGER and DISCONNECT.
C29_LeafReportsAtMostOnce == \A l \in LeafIds : reports[l] <= 1

====
